---------------------------- MODULE Spec2Model ----------------------------
(***************************************************************************)
(* Token-launch monitoring and risk-scoring pipeline.                      *)
(*                                                                         *)
(* Part I   risk utilities (calculateRiskScore, getRiskLevel,              *)
(*          generateRiskSummary, isForkable) and TokenAnalyzer.analyze.    *)
(* Part II  TokenMonitor: admission queue, log-subscription handlers and   *)
(*          the rate-limited request gate, in discrete time.               *)
(***************************************************************************)
EXTENDS Integers, Sequences, FiniteSets, TLC

VARIABLES
    riskCall,        \* the last call made on the risk utilities / analyzer
    riskRet,         \* what that call returned (or that it threw)
    \* TokenMonitor fields
    running,         \* this.running
    processedMints,  \* this.processedMints
    processingQueue, \* this.processingQueue
    isProcessing,    \* this.isProcessing
    timeSinceLastRequest, \* Date.now() - this.lastRequestTime, capped
    subscriptionId,  \* this.subscriptionId (0 = null)
    pumpfunWsUrl,    \* this.pumpfunWsUrl ("null" or "url")
    pumpfunWs,       \* this.pumpfunWs: the socket it refers to (0 = null)
    listeners,       \* the listeners registered on 'newToken', in order
    serviceRunning,  \* ScannerService.running
    \* the environment of the monitor
    onLogsCalls,     \* connection.onLogs calls made (the ids handed out)
    raydiumSubs,     \* live onLogs subscriptions on the Raydium program
    pumpfunSubs,     \* ids of the live onLogs subscriptions on pump.fun
    startPending,    \* start() calls suspended at their awaits
    stopPending,     \* stop() calls suspended at removeOnLogsListener
    loops,           \* sleeping processLoop tasks, by the time left to sleep
    sockets,         \* the WebSocket objects created, by rank: their state
    reconnects,      \* pending reconnection timers, by the time left
    handlers,        \* the log-notification handlers, by slot
    \* history, read by the properties only
    startCalls,      \* start() calls
    stopCalls,       \* stop() calls
    queuedAtStop,    \* mints of the events queued at the last stop() call
    serviceStartCalls,  \* ScannerService.start() calls
    serviceStopCalls,   \* ScannerService.stop() calls
    enqLog,          \* queue at the last delivery, then every event enqueued since
    logEmitted,      \* per mint, the events the log adapters enqueued
    sinceOpStart,    \* time since the gate last started an operation, capped
    opStartGap,      \* time between the last two operation starts, capped
    sinceCompletedStart, \* time since the latest operation start of a gate
                         \* call that is over, capped
    rateLimited,     \* operations answered with a 429 error so far
    sinceOpSettled,  \* time since an operation last settled, capped
    opSettledGap,    \* at the last operation start: sinceOpSettled
    sinceDelivery,   \* time since the last delivery to 'newToken', capped
    deliveryGap,     \* time between the last two deliveries, capped
    deliveredMints,  \* mints of the events delivered so far
    evictedMints,    \* mints that left the queue on an enqueue
    mintConsumedAgain,     \* a mint was delivered or evicted a second time
    deliveredWhileStopped, \* an event was delivered while running was false
    socketOpenedWhileStopped,
                     \* a WebSocket was created while running was false
    listenersCalled, \* listeners the last delivery called
    deliveriesSinceThrow
                     \* deliveries made after the last one in which a
                     \* listener threw, capped at 1 (-1: none threw)

riskVars == <<riskCall, riskRet>>

monitorVars ==
    <<running, processedMints, processingQueue, isProcessing,
      timeSinceLastRequest, subscriptionId, onLogsCalls, raydiumSubs,
      pumpfunSubs, startPending, stopPending, loops, handlers, startCalls,
      stopCalls, queuedAtStop, enqLog, logEmitted, sinceOpStart, opStartGap,
      sinceCompletedStart, rateLimited, sinceOpSettled, opSettledGap,
      sinceDelivery, deliveryGap,
      deliveredMints, evictedMints, mintConsumedAgain, deliveredWhileStopped,
      pumpfunWsUrl, pumpfunWs, sockets, reconnects, socketOpenedWhileStopped,
      listeners, serviceRunning, serviceStartCalls, serviceStopCalls,
      listenersCalled, deliveriesSinceThrow>>

vars == <<riskVars, monitorVars>>

Min(a, b) == IF a < b THEN a ELSE b
Max(a, b) == IF a > b THEN a ELSE b

\* The last min(n, Len(s)) elements of s, in order.
LastN(s, n) == SubSeq(s, Len(s) - Min(n, Len(s)) + 1, Len(s))

(***************************************************************************)
(* Part I.  Risk utilities                                                 *)
(***************************************************************************)

\* TokenRiskFlags: seven named booleans.
FlagNames ==
    { "mintAuthorityActive", "freezeAuthorityActive", "metadataMutable",
      "highHolderConcentration", "lpNotBurned", "lowLiquidity", "honeypot" }

TokenRiskFlags == [FlagNames -> BOOLEAN]

RiskLevel == {"LOW", "MEDIUM", "HIGH", "CRITICAL"}

RISK_THRESHOLDS == [LOW |-> 25, MEDIUM |-> 50, HIGH |-> 75]

\* A bug a refactoring could introduce: the clamp is dropped.
calculateRiskScoreUnclamped(flags) ==
    LET s1 == IF flags.mintAuthorityActive THEN 35 ELSE 0
        s2 == IF flags.freezeAuthorityActive THEN s1 + 25 ELSE s1
        s3 == IF flags.honeypot THEN s2 + 40 ELSE s2
        s4 == IF flags.metadataMutable THEN s3 + 10 ELSE s3
        s5 == IF flags.highHolderConcentration THEN s4 + 15 ELSE s4
        s6 == IF flags.lpNotBurned THEN s5 + 10 ELSE s5
        s7 == IF flags.lowLiquidity THEN s6 + 5 ELSE s6
    IN  s7

\* A bug a typo could introduce: one weight is subtracted (score -= 10).
calculateRiskScoreSubtracting(flags) ==
    LET s1 == IF flags.mintAuthorityActive THEN 35 ELSE 0
        s2 == IF flags.freezeAuthorityActive THEN s1 + 25 ELSE s1
        s3 == IF flags.honeypot THEN s2 + 40 ELSE s2
        s4 == IF flags.metadataMutable THEN s3 + 10 ELSE s3
        s5 == IF flags.highHolderConcentration THEN s4 + 15 ELSE s4
        s6 == IF flags.lpNotBurned THEN s5 - 10 ELSE s5
        s7 == IF flags.lowLiquidity THEN s6 + 5 ELSE s6
    IN  Min(100, s7)

\* let score = 0; if (flag) score += w; ... ; return Math.min(100, score)
calculateRiskScore(flags) ==
    LET s1 == IF flags.mintAuthorityActive THEN 35 ELSE 0
        s2 == IF flags.freezeAuthorityActive THEN s1 + 25 ELSE s1
        s3 == IF flags.honeypot THEN s2 + 40 ELSE s2
        s4 == IF flags.metadataMutable THEN s3 + 10 ELSE s3
        s5 == IF flags.highHolderConcentration THEN s4 + 15 ELSE s4
        s6 == IF flags.lpNotBurned THEN s5 + 10 ELSE s5
        s7 == IF flags.lowLiquidity THEN s6 + 5 ELSE s6
    IN  Min(100, s7)

\* A bug: the comparisons are inclusive (<=) instead of strict.
getRiskLevelInclusive(score) ==
    IF score <= RISK_THRESHOLDS.LOW THEN "LOW"
    ELSE IF score <= RISK_THRESHOLDS.MEDIUM THEN "MEDIUM"
    ELSE IF score <= RISK_THRESHOLDS.HIGH THEN "HIGH"
    ELSE "CRITICAL"

getRiskLevel(score) ==
    IF score < RISK_THRESHOLDS.LOW THEN "LOW"
    ELSE IF score < RISK_THRESHOLDS.MEDIUM THEN "MEDIUM"
    ELSE IF score < RISK_THRESHOLDS.HIGH THEN "HIGH"
    ELSE "CRITICAL"

\* The fixed sentences, by the flag that triggers them; the text itself is
\* abbreviated to its leading words.
NoRiskSentence == "No significant risks detected"

IssueSentence(f) ==
    CASE f = "mintAuthorityActive"     -> "MINT AUTHORITY ACTIVE"
      [] f = "freezeAuthorityActive"   -> "FREEZE AUTHORITY ACTIVE"
      [] f = "honeypot"                -> "HONEYPOT DETECTED"
      [] f = "metadataMutable"         -> "Metadata is mutable"
      [] f = "highHolderConcentration" -> "High holder concentration"
      [] f = "lpNotBurned"             -> "LP tokens not burned"
      [] f = "lowLiquidity"            -> "Low liquidity"

\* The order in which generateRiskSummary tests the flags.
SummaryOrder ==
    << "mintAuthorityActive", "freezeAuthorityActive", "honeypot",
       "metadataMutable", "highHolderConcentration", "lpNotBurned",
       "lowLiquidity" >>

\* A bug: the honeypot test is chained to the freeze test with else-if, so
\* its sentence is skipped when freezeAuthorityActive is true.
generateRiskSummaryElseIf(flags) ==
    LET issues == SelectSeq(SummaryOrder,
                      LAMBDA f : flags[f] /\ ~(f = "honeypot" /\
                                               flags.freezeAuthorityActive))
    IN  IF Len(issues) = 0
        THEN <<NoRiskSentence>>
        ELSE [i \in 1..Len(issues) |-> IssueSentence(issues[i])]

\* issues.push(...) per true flag; the summary is the list of sentences
\* (join('\n') keeps them apart, no sentence holds a line break).
generateRiskSummary(flags) ==
    LET issues == SelectSeq(SummaryOrder, LAMBDA f : flags[f])
    IN  IF Len(issues) = 0
        THEN <<NoRiskSentence>>
        ELSE [i \in 1..Len(issues) |-> IssueSentence(issues[i])]

\* A bug: the risk-level test is dropped.
isForkableIgnoringLevel(assessment) ==
    IF /\ ~assessment.flags.mintAuthorityActive
       /\ ~assessment.flags.freezeAuthorityActive
       /\ ~assessment.flags.honeypot
    THEN [forkable |-> FALSE, reason |-> "No critical flaws that can be fixed via fork"]
    ELSE [forkable |-> TRUE, reason |-> "undefined"]

\* A bug: the level test follows the comment ("only fork HIGH or CRITICAL")
\* and rejects MEDIUM as well.
isForkableAboveMedium(assessment) ==
    IF assessment.riskLevel \in {"LOW", "MEDIUM"}
    THEN [forkable |-> FALSE, reason |-> "Token is low risk - no need to fork"]
    ELSE IF /\ ~assessment.flags.mintAuthorityActive
            /\ ~assessment.flags.freezeAuthorityActive
            /\ ~assessment.flags.honeypot
    THEN [forkable |-> FALSE, reason |-> "No critical flaws that can be fixed via fork"]
    ELSE [forkable |-> TRUE, reason |-> "undefined"]

isForkable(assessment) ==
    IF assessment.riskLevel = "LOW"
    THEN [forkable |-> FALSE, reason |-> "Token is low risk - no need to fork"]
    ELSE IF /\ ~assessment.flags.mintAuthorityActive
            /\ ~assessment.flags.freezeAuthorityActive
            /\ ~assessment.flags.honeypot
    THEN [forkable |-> FALSE, reason |-> "No critical flaws that can be fixed via fork"]
    ELSE [forkable |-> TRUE, reason |-> "undefined"]


(***************************************************************************)
(* TokenAnalyzer.  What the collaborators answer is the input of a call:   *)
(*   rug      what rugcheck.getRiskAssessment(mint) settles to             *)
(*   chain    what the on-chain reader holds for the mint                  *)
(***************************************************************************)

\* The mint identities the model draws from.
Mints == {"mintA", "mintB"}

\* Assembles a TokenRiskAssessment from its flags (the timestamp is left out).
MakeAssessment(mint, flags) ==
    LET riskScore == calculateRiskScore(flags)
        riskLevel == getRiskLevel(riskScore)
        summary   == generateRiskSummary(flags)
        draft     == [mint |-> mint, riskScore |-> riskScore, riskLevel |-> riskLevel,
                      flags |-> flags, summary |-> summary, forkable |-> FALSE]
        forkability == isForkable(draft)
    IN  [mint |-> mint, riskScore |-> riskScore, riskLevel |-> riskLevel,
         flags |-> flags, summary |-> summary,
         forkable |-> forkability.forkable, forkableReason |-> forkability.reason]

\* rugcheck.getRiskAssessment(mint): an assessment of the parsed report's
\* flags, null on 404, or a rejection on any other failure.
RugOutcomes ==
    [kind : {"assessment"}, flags : TokenRiskFlags]
        \cup {[kind |-> "null"], [kind |-> "throw"]}

\* getMint (Token-2022, then SPL Token): fails, or gives the two authorities
\* (TRUE = the authority field is set).
MintInfos ==
    {[ok |-> FALSE]} \cup
    [ok : {TRUE}, mintAuthority : BOOLEAN, freezeAuthority : BOOLEAN]

\* checkMetadataMutability: null (no account, short data, error) or boolean.
MetadataAnswers == {"null", "mutable", "immutable"}

\* getTokenLargestAccounts + getMint(...).supply, or a failure of either.
MaxAccounts == 2
MaxAmount == 2
MaxSupply == 4

LargestAccounts == UNION {[1..n -> 0..MaxAmount] : n \in 0..MaxAccounts}

HolderData ==
    {[ok |-> FALSE]} \cup
    [ok : {TRUE}, accounts : LargestAccounts, supply : 0..MaxSupply]

RECURSIVE SumSeq(_)
SumSeq(s) == IF Len(s) = 0 THEN 0 ELSE Head(s) + SumSeq(Tail(s))

\* getTokenLargestAccounts answers with the largest accounts first, and with
\* more than the ten that are summed.
MaxLargestAccounts == 11
MaxListedAmount == 1
MaxListedSupply == 21

Descending(s) == \A i \in 1..(Len(s) - 1) : s[i] >= s[i + 1]

ListedHolderData ==
    [ok : {TRUE},
     accounts : {s \in UNION {[1..n -> 0..MaxListedAmount] :
                                 n \in 0..MaxLargestAccounts} : Descending(s)},
     supply : 0..MaxListedSupply]

\* A bug: slice(0, 10) is dropped, every listed account is summed.
checkHolderConcentrationWholeList(holders) ==
    IF ~holders.ok THEN "null"
    ELSE IF Len(holders.accounts) = 0 THEN "null"
    ELSE IF holders.supply = 0 THEN "null"
    ELSE LET top10Amount == SumSeq(holders.accounts)
         IN  IF top10Amount * 100 > 50 * holders.supply THEN "high" ELSE "notHigh"

\* checkHolderConcentration > 50, or "null" when it returns null.  The
\* percentage (top10 / supply) * 100 > 50 is compared as top10 * 100 > 50 * supply.
checkHolderConcentration(holders) ==
    IF ~holders.ok THEN "null"
    ELSE IF Len(holders.accounts) = 0 THEN "null"
    ELSE IF holders.supply = 0 THEN "null"
    ELSE LET top10Amount == SumSeq(SubSeq(holders.accounts, 1,
                                          Min(10, Len(holders.accounts))))
         IN  IF top10Amount * 100 > 50 * holders.supply THEN "high" ELSE "notHigh"

\* Partial<TokenRiskFlags>: a function on the flags that were supplied.
EmptyFlags == [f \in {} |-> FALSE]

getOnChainFlags(mintInfo, metadata) ==
    IF ~mintInfo.ok THEN EmptyFlags
    ELSE LET auth == [f \in {"mintAuthorityActive", "freezeAuthorityActive"} |->
                        IF f = "mintAuthorityActive" THEN mintInfo.mintAuthority
                        ELSE mintInfo.freezeAuthority]
         IN  IF metadata = "null" THEN auth
             ELSE [f \in DOMAIN auth \cup {"metadataMutable"} |->
                     IF f = "metadataMutable" THEN metadata = "mutable" ELSE auth[f]]

\* A bug: the spread operands are swapped, so the first argument wins.
SpreadFirstWins(a, b) ==
    [f \in DOMAIN a \cup DOMAIN b |-> IF f \in DOMAIN a THEN a[f] ELSE b[f]]

\* { ...a, ...b }: b's entries override a's.
Spread(a, b) ==
    [f \in DOMAIN a \cup DOMAIN b |-> IF f \in DOMAIN b THEN b[f] ELSE a[f]]

AllFalseFlags == [f \in FlagNames |-> FALSE]

analyzeOnChain(mint, mintInfo, metadata, holders) ==
    LET flags0 == Spread(AllFalseFlags, getOnChainFlags(mintInfo, metadata))
        holderConcentration == checkHolderConcentration(holders)
        flags  == IF holderConcentration # "null"
                  THEN [flags0 EXCEPT !.highHolderConcentration =
                                         (holderConcentration = "high")]
                  ELSE flags0
    IN  MakeAssessment(mint, flags)

\* analyze(mint): [kind |-> "return", value |-> assessment] or [kind |-> "throw"].
analyze(mint, rug, mintInfo, metadata, holders) ==
    IF rug.kind = "throw" THEN [kind |-> "throw"]
    ELSE IF rug.kind = "assessment"
    THEN [kind  |-> "return",
          value |-> MakeAssessment(mint,
                        Spread(rug.flags, getOnChainFlags(mintInfo, metadata)))]
    ELSE [kind |-> "return", value |-> analyzeOnChain(mint, mintInfo, metadata, holders)]

(***************************************************************************)
(* Calls on the risk utilities and the analyzer.  The functions are pure:   *)
(* one call is made from the initial state, with its arguments drawn from  *)
(* the bounded input sets.                                                 *)
(***************************************************************************)

NoCall == [op |-> "none"]

RiskInit ==
    /\ riskCall = NoCall
    /\ riskRet = NoCall

CallCalculateRiskScore(flags) ==
    /\ riskCall = NoCall
    /\ riskCall' = [op |-> "calculateRiskScore", flags |-> flags]
    /\ riskRet' = [kind |-> "return", value |-> calculateRiskScore(flags)]
    /\ UNCHANGED monitorVars

\* getRiskLevel over the scores calculateRiskScore can give.
Scores == 0..100

CallGetRiskLevel(score) ==
    /\ riskCall = NoCall
    /\ riskCall' = [op |-> "getRiskLevel", score |-> score]
    /\ riskRet' = [kind |-> "return", value |-> getRiskLevel(score)]
    /\ UNCHANGED monitorVars

\* isForkable reads riskLevel and flags of the assessment it is given; the
\* two are drawn independently.
CallIsForkable(level, flags) ==
    /\ riskCall = NoCall
    /\ riskCall' = [op |-> "isForkable", riskLevel |-> level, flags |-> flags]
    /\ riskRet' = [kind |-> "return",
                   value |-> isForkable([riskLevel |-> level, flags |-> flags])]
    /\ UNCHANGED monitorVars

\* analyzeOnChain with the holder list as the RPC node orders it.
CallAnalyzeOnChain(mint, mintInfo, metadata, holders) ==
    /\ riskCall = NoCall
    /\ riskCall' = [op |-> "analyzeOnChain", mint |-> mint,
                    mintInfo |-> mintInfo, metadata |-> metadata,
                    holders |-> holders]
    /\ riskRet' = [kind |-> "return",
                   value |-> analyzeOnChain(mint, mintInfo, metadata, holders)]
    /\ UNCHANGED monitorVars

\* RugCheckClient.getRiskAssessment once the report is parsed into flags:
\* the assessment it builds from them.
CallGetRiskAssessment(mint, flags) ==
    /\ riskCall = NoCall
    /\ riskCall' = [op |-> "getRiskAssessment", mint |-> mint, flags |-> flags]
    /\ riskRet' = [kind |-> "return", value |-> MakeAssessment(mint, flags)]
    /\ UNCHANGED monitorVars

CallGenerateRiskSummary(flags) ==
    /\ riskCall = NoCall
    /\ riskCall' = [op |-> "generateRiskSummary", flags |-> flags]
    /\ riskRet' = [kind |-> "return", value |-> generateRiskSummary(flags)]
    /\ UNCHANGED monitorVars

\* The holder data is read on the on-chain-only path alone.
CallAnalyze(mint, rug, mintInfo, metadata, holders) ==
    /\ riskCall = NoCall
    /\ riskCall' = [op |-> "analyze", mint |-> mint, rug |-> rug,
                    mintInfo |-> mintInfo, metadata |-> metadata,
                    holders |-> holders]
    /\ riskRet' = analyze(mint, rug, mintInfo, metadata, holders)
    /\ UNCHANGED monitorVars

RiskNext ==
    /\ riskCall = NoCall
    /\ \/ \E flags \in TokenRiskFlags : CallCalculateRiskScore(flags)
       \/ \E score \in Scores : CallGetRiskLevel(score)
       \/ \E flags \in TokenRiskFlags : CallGenerateRiskSummary(flags)
       \/ \E level \in RiskLevel, flags \in TokenRiskFlags : CallIsForkable(level, flags)
       \/ \E mint \in Mints, rug \in RugOutcomes, mintInfo \in MintInfos,
             metadata \in MetadataAnswers :
             \E holders \in (IF rug.kind = "null" THEN HolderData ELSE {[ok |-> FALSE]}) :
                 CallAnalyze(mint, rug, mintInfo, metadata, holders)
       \/ \E mintInfo \in MintInfos, metadata \in MetadataAnswers,
             holders \in ListedHolderData :
                 CallAnalyzeOnChain("mintA", mintInfo, metadata, holders)
       \/ \E mint \in Mints, flags \in TokenRiskFlags :
             CallGetRiskAssessment(mint, flags)



(***************************************************************************)
(* Properties of the risk utilities and the analyzer (SpecRisk).           *)
(***************************************************************************)

\* The weights as the specification lists them.
WeightOf(f) ==
    CASE f = "mintAuthorityActive"     -> 35
      [] f = "freezeAuthorityActive"   -> 25
      [] f = "honeypot"                -> 40
      [] f = "metadataMutable"         -> 10
      [] f = "highHolderConcentration" -> 15
      [] f = "lpNotBurned"             -> 10
      [] f = "lowLiquidity"            -> 5

RECURSIVE SumWeights(_)
SumWeights(S) ==
    IF S = {} THEN 0
    ELSE LET f == CHOOSE x \in S : TRUE IN WeightOf(f) + SumWeights(S \ {f})

TrueFlags(flags) == {f \in FlagNames : flags[f]}

AllTrueFlags == [f \in FlagNames |-> TRUE]

OnlyFlag(g) == [f \in FlagNames |-> f = g]

AnalyzeReturned == riskCall.op = "analyze" /\ riskRet.kind = "return"

\* C1: for every assignment of the seven flags calculateRiskScore returns
\* min(100, sum of the weights of the true flags), a value in 0..100; all
\* flags true gives 100 and all false gives 0.  The same holds of the score
\* of every assessment analyze() builds.
C1_ScoreIsClampedWeightSum ==
    /\ riskCall.op = "calculateRiskScore" =>
          /\ riskRet.value = Min(100, SumWeights(TrueFlags(riskCall.flags)))
          /\ riskRet.value \in 0..100
          /\ (riskCall.flags = AllTrueFlags => riskRet.value = 100)
          /\ (riskCall.flags = AllFalseFlags => riskRet.value = 0)
    /\ AnalyzeReturned =>
          riskRet.value.riskScore =
              Min(100, SumWeights(TrueFlags(riskRet.value.flags)))

\* C1 witness: the clamp acts (all seven flags true sum to 140, score 100).
C1_Witness ==
    /\ riskCall.op = "calculateRiskScore"
    /\ riskCall.flags = AllTrueFlags
    /\ riskRet.value = 100

\* C2: isForkable answers forkable = TRUE only if the risk level is above LOW
\* and at least one of mintAuthorityActive, freezeAuthorityActive, honeypot
\* is true, for every combination of level and flags.
C2_ForkableNeedsLevelAndCriticalFlag ==
    (riskCall.op = "isForkable" /\ riskRet.value.forkable) =>
        /\ riskCall.riskLevel # "LOW"
        /\ \/ riskCall.flags.mintAuthorityActive
           \/ riskCall.flags.freezeAuthorityActive
           \/ riskCall.flags.honeypot

\* C2 witness: level LOW with a critical flag set is refused.
C2_Witness ==
    /\ riskCall.op = "isForkable"
    /\ riskCall.riskLevel = "LOW"
    /\ riskCall.flags.mintAuthorityActive
    /\ ~riskRet.value.forkable

\* Whether the On-Chain Verifier supplied flag f in the call, and its value.
OnChainSupplied(f) ==
    /\ riskCall.mintInfo.ok
    /\ \/ f \in {"mintAuthorityActive", "freezeAuthorityActive"}
       \/ f = "metadataMutable" /\ riskCall.metadata # "null"

OnChainValue(f) ==
    CASE f = "mintAuthorityActive"   -> riskCall.mintInfo.mintAuthority
      [] f = "freezeAuthorityActive" -> riskCall.mintInfo.freezeAuthority
      [] f = "metadataMutable"       -> riskCall.metadata = "mutable"

\* C3: in analyze(), when a third-party report is available, each merged
\* flag is the on-chain value if the On-Chain Verifier supplied it and the
\* third-party value otherwise; score, level, summary and forkability are
\* those of the merged flags.
C3_MergeOnChainWins ==
    (AnalyzeReturned /\ riskCall.rug.kind = "assessment") =>
        LET a == riskRet.value IN
        /\ \A f \in FlagNames :
              a.flags[f] = IF OnChainSupplied(f) THEN OnChainValue(f)
                           ELSE riskCall.rug.flags[f]
        /\ a.riskScore = Min(100, SumWeights(TrueFlags(a.flags)))
        /\ a.riskLevel = getRiskLevel(a.riskScore)
        /\ a.summary = generateRiskSummary(a.flags)
        /\ a.forkable = isForkable(a).forkable

\* C3 witness: third-party mintAuthorityActive = false, on-chain true, merged true.
C3_Witness ==
    /\ AnalyzeReturned
    /\ riskCall.rug.kind = "assessment"
    /\ ~riskCall.rug.flags.mintAuthorityActive
    /\ riskCall.mintInfo.ok
    /\ riskCall.mintInfo.mintAuthority
    /\ riskRet.value.flags.mintAuthorityActive

MaxReportList == 2    \* entries of topHolders, markets and risks in a report

\* mintAuthority / freezeAuthority: null (or absent), '' or an address.
Authorities == {"null", "empty", "set"}

\* An optional boolean field: tokenMeta?.mutable, lpLocked.
OptionalBooleans == {"absent", "false", "true"}

\* An optional array: [present |-> FALSE] when the field is absent.
OptionalLists(S) ==
    {[present |-> FALSE, items |-> <<>>]} \cup
    {[present |-> TRUE, items |-> s] :
        s \in UNION {[1..n -> S] : n \in 0..MaxReportList}}

HolderPcts == {20, 40}          \* topHolders[i].pct
MarketUsd == {2000, 3000}       \* markets[i].liquidityAUsd + liquidityBUsd
RiskEntries ==                  \* risks[i], by what its name includes
    {[name |-> "honeypot", level |-> "danger"],
     [name |-> "honeypot", level |-> "warn"],
     [name |-> "other", level |-> "danger"]}

RugCheckTokenResponse ==
    [mintAuthority : Authorities, freezeAuthority : Authorities,
     tokenMetaMutable : OptionalBooleans, lpLocked : OptionalBooleans,
     topHolders : OptionalLists(HolderPcts),
     markets : OptionalLists(MarketUsd),
     risks : OptionalLists(RiskEntries)]

\* The name includes 'honeypot' or 'cannot sell'.
IsHoneypotRisk(r) == r.name = "honeypot"

NoRisk == [name |-> "none", level |-> "none"]

\* risks.find(..): the first entry that names a honeypot, or NoRisk.
RECURSIVE FindHoneypotRisk(_)
FindHoneypotRisk(items) ==
    IF items = <<>> THEN NoRisk
    ELSE IF IsHoneypotRisk(Head(items)) THEN Head(items)
    ELSE FindHoneypotRisk(Tail(items))

parseRiskFlags(report) ==
    LET top10Pct ==
            SumSeq(SubSeq(report.topHolders.items, 1,
                          Min(10, Len(report.topHolders.items))))
        totalLiquidityUsd == SumSeq(report.markets.items)
        honeypotRisk == FindHoneypotRisk(report.risks.items)
    IN  [mintAuthorityActive |-> report.mintAuthority = "set",
         freezeAuthorityActive |-> report.freezeAuthority = "set",
         metadataMutable |-> report.tokenMetaMutable = "true",
         highHolderConcentration |->
             (report.topHolders.present /\ top10Pct > 50),
         lpNotBurned |-> report.lpLocked = "false",
         lowLiquidity |->
             (report.markets.present /\ totalLiquidityUsd < 5000),
         honeypot |->
             /\ report.risks.present
             /\ honeypotRisk # NoRisk
             /\ honeypotRisk.level = "danger"]

\* How the GET of /tokens/{mint}/report ends: a report, an error carrying
\* a response status, an axios error without response (timeout, network),
\* or an error that is not an axios error.
HttpStatuses == {404, 500}

HttpOutcomes(reports) ==
    {[kind |-> "ok", report |-> r] : r \in reports}
    \cup {[kind |-> "status", status |-> st] : st \in HttpStatuses}
    \cup {[kind |-> "noResponse"], [kind |-> "otherError"]}

\* The same, rethrowing every error.
getTokenReportRethrowing(http) ==
    IF http.kind = "ok" THEN [kind |-> "return", value |-> http.report]
    ELSE [kind |-> "throw"]

\* getTokenReport: the report, "null", or a rejection.
getTokenReport(http) ==
    IF http.kind = "ok" THEN [kind |-> "return", value |-> http.report]
    ELSE IF http.kind = "status" /\ http.status = 404
    THEN [kind |-> "return", value |-> "null"]
    ELSE [kind |-> "throw"]

\* getRiskAssessment, as an element of RugOutcomes.
getRiskAssessment(http) ==
    LET report == getTokenReport(http)
    IN  IF report.kind = "throw" THEN [kind |-> "throw"]
        ELSE IF report.kind = "return" /\ http.kind # "ok"
        THEN [kind |-> "null"]
        ELSE [kind |-> "assessment", flags |-> parseRiskFlags(report.value)]

\* The reports whose optional arrays are absent.
PlainReports ==
    {r \in RugCheckTokenResponse :
        ~r.topHolders.present /\ ~r.markets.present /\ ~r.risks.present}

CallParseRiskFlags(report) ==
    /\ riskCall = NoCall
    /\ riskCall' = [op |-> "parseRiskFlags", report |-> report]
    /\ riskRet' = [kind |-> "return", value |-> parseRiskFlags(report)]
    /\ UNCHANGED monitorVars

CallGetTokenReport(http) ==
    /\ riskCall = NoCall
    /\ riskCall' = [op |-> "getTokenReport", http |-> http]
    /\ riskRet' = getTokenReport(http)
    /\ UNCHANGED monitorVars

\* analyze(mint) with the answer of the RugCheck API and of the chain.
CallAnalyzeFetched(mint, http, mintInfo, metadata, holders) ==
    /\ riskCall = NoCall
    /\ riskCall' = [op |-> "analyzeFetched", mint |-> mint, http |-> http,
                    mintInfo |-> mintInfo, metadata |-> metadata,
                    holders |-> holders]
    /\ riskRet' = analyze(mint, getRiskAssessment(http), mintInfo, metadata,
                          holders)
    /\ UNCHANGED monitorVars

RugcheckNext ==
    /\ riskCall = NoCall
    /\ \/ \E report \in RugCheckTokenResponse : CallParseRiskFlags(report)
       \/ \E http \in HttpOutcomes(PlainReports) : CallGetTokenReport(http)
       \/ \E mint \in Mints, http \in HttpOutcomes(PlainReports),
             mintInfo \in MintInfos, metadata \in MetadataAnswers :
             \E holders \in (IF getRiskAssessment(http).kind = "null"
                             THEN HolderData ELSE {[ok |-> FALSE]}) :
                 CallAnalyzeFetched(mint, http, mintInfo, metadata, holders)

(***************************************************************************)
(* Part II.  TokenMonitor (packages/scanner/src/monitor.ts).               *)
(*                                                                         *)
(* Time advances in steps of TickMs.  No absolute clock is kept: a sleep   *)
(* is the time it still has to run, and a timestamp is the time elapsed    *)
(* since it was taken, capped at the largest value the code compares it    *)
(* with.  A timer never fires early; it may fire late.  The code between   *)
(* two awaits is one step.  The monitor is built without a pump.fun        *)
(* WebSocket url (it listens on the two log subscriptions only), except    *)
(* under SpecSocket, where it is built with one.                           *)
(***************************************************************************)
RPC_REQUEST_DELAY_MS == 1000
MAX_QUEUE_SIZE == 10
RETRY_DELAY_MS == 5000
MAX_RETRIES == 3
FINALITY_DELAY_MS == 3000
RECONNECT_DELAY_MS == 5000

TickMs == RPC_REQUEST_DELAY_MS \div 2

\* Bounds of the exploration.
QueueEnqueued == 11   \* enqueues between two deliveries (SpecQueue)
MaxHandlers == 2      \* log notifications handled over a run (SpecLogs)
MaxKeys == 1          \* account keys / created mints of one transaction
LogsRateLimited == 1  \* operations answered with a 429 error (SpecLogs)
MaxStarts == 2        \* start() calls that find the monitor stopped
MaxStops == 2         \* stop() calls
LifecycleEnqueued == 2  \* manual enqueues between two deliveries
                        \* (SpecLifecycle)
DeliveryEvents == 12  \* events enqueued over a run (SpecDelivery)
MaxSockets == 3       \* WebSocket objects created over a run (SpecSocket)
SocketStops == 1      \* stop() calls (SpecSocket)
PushEnqueued == 1     \* push messages between two deliveries (SpecSocket)
ThrowEvents == 4      \* events enqueued over a run (SpecThrow)
RestartEvents == 3    \* events enqueued over a run (SpecRestart)

\* a timestamp taken `a` ms ago, one tick later
Age(a, cap) == Min(a + TickMs, cap)
\* a sleep with `t` ms left, one tick later
Down(t) == Max(0, t - TickMs)

TokenLaunchEvent(mint, platform) == [mint |-> mint, platform |-> platform]

\* The same, keeping the oldest event and refusing the new one.
queueTokenDropNewest(queue, event) ==
    IF Len(queue) >= MAX_QUEUE_SIZE THEN queue ELSE Append(queue, event)

\* queueToken: the queue after the call.
queueToken(queue, event) ==
    IF Len(queue) >= MAX_QUEUE_SIZE
    THEN Append(Tail(queue), event)
    ELSE Append(queue, event)

\* No continuation of start() is waiting in the microtask queue; timers and
\* I/O callbacks run only then.
NoMicrotask == startPending = <<>>

HandlerIds == 1..MaxHandlers

LoopTimes == {k * TickMs : k \in 0..(RPC_REQUEST_DELAY_MS \div TickMs)}

SocketIds == 1..MaxSockets

ReconnectTimes == {k * TickMs : k \in 0..(RECONNECT_DELAY_MS \div TickMs)}

NoGateCall ==
    [how |-> "none", fn |-> "none", outcome |-> "none", attempts |-> 0,
     returnedResult |-> FALSE]

\* A handler slot before its notification arrives.
IdleHandler ==
    [pc |-> "idle",          \* where the handler is suspended
     platform |-> "NONE",    \* the subscription that notified it
     timer |-> 0,            \* time left of the sleep it is in
     fn |-> "none",          \* the operation of the gate call under way
     retries |-> 0,          \* the `retries` argument of that call
     keys |-> <<>>,          \* accountKeys of the transaction (Raydium)
     idx |-> 0,              \* position of the for-loop over keys
     \* history of the gate call under way
     attempts |-> 0,         \* operation runs so far
     sinceIssue |-> RPC_REQUEST_DELAY_MS,
         \* at issue: sinceCompletedStart; aged until the first run
     gapFromPrev |-> RPC_REQUEST_DELAY_MS,
         \* sinceIssue when the first run started
     sinceStart |-> RPC_REQUEST_DELAY_MS,
         \* time since the latest run started, while it is pending
     sinceFail |-> RETRY_DELAY_MS,
         \* time since the latest run failed, until the retry starts
     retryGap |-> RETRY_DELAY_MS,
         \* sinceFail when the latest retry started
     calls |-> 0,            \* gate calls of this handler that are over
     lastCall |-> NoGateCall,  \* how the latest of them ended
     \* history of the handler
     stopsAtEntry |-> 0,     \* stop() calls made when it was entered
     emittedAfterStop |-> FALSE]
         \* it enqueued an event after a stop() call made since its entry

MonitorFieldsInit ==
    /\ running = FALSE
    /\ pumpfunWs = 0
    /\ sockets = [i \in SocketIds |-> "none"]
    /\ reconnects = [t \in ReconnectTimes |-> 0]
    /\ socketOpenedWhileStopped = FALSE
    /\ serviceRunning = FALSE
    /\ serviceStartCalls = 0
    /\ serviceStopCalls = 0
    /\ listenersCalled = 0
    /\ deliveriesSinceThrow = -1
    /\ processedMints = {}
    /\ processingQueue = <<>>
    /\ isProcessing = FALSE
    /\ timeSinceLastRequest = RPC_REQUEST_DELAY_MS
    /\ subscriptionId = 0
    /\ onLogsCalls = 0
    /\ raydiumSubs = 0
    /\ pumpfunSubs = {}
    /\ startPending = <<>>
    /\ stopPending = 0
    /\ loops = [t \in LoopTimes |-> 0]
    /\ handlers = [h \in HandlerIds |-> IdleHandler]
    /\ startCalls = 0
    /\ stopCalls = 0
    /\ queuedAtStop = {}
    /\ enqLog = <<>>
    /\ logEmitted = [m \in Mints |-> 0]
    /\ sinceOpStart = RPC_REQUEST_DELAY_MS
    /\ opStartGap = RPC_REQUEST_DELAY_MS
    /\ sinceCompletedStart = RPC_REQUEST_DELAY_MS
    /\ rateLimited = 0
    /\ sinceOpSettled = RPC_REQUEST_DELAY_MS
    /\ opSettledGap = RPC_REQUEST_DELAY_MS
    /\ sinceDelivery = RPC_REQUEST_DELAY_MS
    /\ deliveryGap = RPC_REQUEST_DELAY_MS
    /\ deliveredMints = {}
    /\ evictedMints = {}
    /\ mintConsumedAgain = FALSE
    /\ deliveredWhileStopped = FALSE

\* new TokenMonitor(connection): pumpfunWsUrl defaults to null.
MonitorInit ==
    /\ pumpfunWsUrl = "null"
    /\ listeners = <<>>
    /\ MonitorFieldsInit

\* new TokenMonitor(connection, pumpfunWsUrl).
MonitorInitWs ==
    /\ pumpfunWsUrl = "url"
    /\ listeners = <<>>
    /\ MonitorFieldsInit

\* A monitor on which one listener that may throw has been registered:
\* monitor.on('newToken', listener).
MonitorInitThrowing ==
    /\ pumpfunWsUrl = "null"
    /\ listeners = <<"throwing">>
    /\ MonitorFieldsInit

serviceVars ==
    <<listeners, serviceRunning, serviceStartCalls, serviceStopCalls>>

socketVars ==
    <<pumpfunWsUrl, pumpfunWs, sockets, reconnects, socketOpenedWhileStopped>>

lifecycleVars ==
    <<running, subscriptionId, onLogsCalls, raydiumSubs, pumpfunSubs,
      startPending, stopPending, startCalls, stopCalls, queuedAtStop>>
gateVars ==
    <<timeSinceLastRequest, sinceOpStart, opStartGap, sinceCompletedStart,
      rateLimited, sinceOpSettled, opSettledGap>>
deliveryVars ==
    <<sinceDelivery, deliveryGap, deliveredMints, deliveredWhileStopped,
      listenersCalled, deliveriesSinceThrow>>
queueVars ==
    <<processingQueue, isProcessing, enqLog, evictedMints, mintConsumedAgain,
      deliveryVars>>

MintsIn(queue) == {queue[i].mint : i \in 1..Len(queue)}

\* The history of an enqueue: the mints that are no longer in the queue.
Evictions ==
    LET out == MintsIn(processingQueue) \ MintsIn(processingQueue')
    IN  /\ evictedMints' = evictedMints \cup out
        /\ mintConsumedAgain' =
               (mintConsumedAgain
                   \/ out \cap (deliveredMints \cup evictedMints) # {})
adapterVars == <<processedMints, handlers, logEmitted>>

SocketsCreated == Cardinality({i \in SocketIds : sockets[i] # "none"})

\* The model can create one more WebSocket object (or needs none).
CanConnect == pumpfunWsUrl = "null" \/ SocketsCreated < MaxSockets

\* connectPumpfunWs(), called with this.running = isRunning: a new
\* WebSocket replaces the one this.pumpfunWs referred to, which is neither
\* closed nor looked at.
connectPumpfunWs(isRunning) ==
    IF pumpfunWsUrl = "null"
    THEN UNCHANGED <<pumpfunWs, sockets, socketOpenedWhileStopped>>
    ELSE /\ pumpfunWs' = SocketsCreated + 1
         /\ sockets' = [sockets EXCEPT ![SocketsCreated + 1] = "connecting"]
         /\ socketOpenedWhileStopped' =
                (socketOpenedWhileStopped \/ ~isRunning)

\* The same, without the test of this.running.
StartAlways(maxStarts) ==
    /\ startCalls < maxStarts
    /\ startCalls' = startCalls + 1
    /\ running' = TRUE
    /\ CanConnect
    /\ connectPumpfunWs(TRUE)
    /\ raydiumSubs' = raydiumSubs + 1
    /\ onLogsCalls' = onLogsCalls + 1
    /\ startPending' = Append(startPending, "subscribeToPumpfun")
    /\ UNCHANGED <<subscriptionId, pumpfunSubs, stopPending, stopCalls,
                   queuedAtStop,
                   loops, gateVars, queueVars, adapterVars, riskVars,
                   pumpfunWsUrl, reconnects, serviceVars>>

\* start(): it returns at once when the monitor is running; otherwise it
\* runs up to its first await, where subscribeToRaydium has run.
MonitorStart(maxStarts) ==
    /\ startCalls < maxStarts
    /\ startCalls' = startCalls + 1
    /\ IF running
       THEN UNCHANGED <<running, raydiumSubs, onLogsCalls, startPending,
                        pumpfunWs, sockets, socketOpenedWhileStopped>>
       ELSE /\ running' = TRUE
            /\ CanConnect
            /\ connectPumpfunWs(TRUE)
            /\ raydiumSubs' = raydiumSubs + 1
            /\ onLogsCalls' = onLogsCalls + 1
            /\ startPending' = Append(startPending, "subscribeToPumpfun")
    /\ UNCHANGED <<subscriptionId, pumpfunSubs, stopPending, stopCalls,
                   queuedAtStop,
                   loops, gateVars, queueVars, adapterVars, riskVars,
                   pumpfunWsUrl, reconnects>>

\* monitor.start() called on the monitor itself.
Start(maxStarts) ==
    /\ MonitorStart(maxStarts)
    /\ UNCHANGED serviceVars

\* start() resumed after `await subscribeToRaydium()`.
StartSubscribePumpfun ==
    /\ startPending # <<>>
    /\ Head(startPending) = "subscribeToPumpfun"
    /\ subscriptionId' = onLogsCalls + 1
    /\ onLogsCalls' = onLogsCalls + 1
    /\ pumpfunSubs' = pumpfunSubs \cup {onLogsCalls + 1}
    /\ startPending' = Append(Tail(startPending), "startProcessingLoop")
    /\ UNCHANGED <<running, raydiumSubs, stopPending, startCalls, stopCalls,
                   queuedAtStop,
                   loops, gateVars, queueVars, adapterVars, riskVars,
                   socketVars, serviceVars>>

\* Whether a listener throws at a delivery is the listener's choice; only
\* a listener registered as "throwing" can.
ThrowChoices ==
    IF \E i \in 1..Len(listeners) : listeners[i] = "throwing"
    THEN BOOLEAN ELSE {FALSE}

\* emit('newToken', event) calls the listeners in order, up to the first
\* one that throws: the number of listeners called.
EmitCalls(listenerThrows) ==
    IF listenerThrows
    THEN CHOOSE i \in 1..Len(listeners) :
             /\ listeners[i] = "throwing"
             /\ \A j \in 1..(i - 1) : listeners[j] # "throwing"
    ELSE Len(listeners)

\* The same without the try/catch: the exception leaves processLoop.
TryEmitUncaught(listenerThrows) ==
    IF listenerThrows THEN "escaped" ELSE "returned"

\* try { this.emit('newToken', event) } catch (error) { logger.error(..) }
TryEmit(listenerThrows) ==
    IF listenerThrows THEN "caught" ELSE "returned"

\* The pass finds an event to deliver.
Delivering == Len(processingQueue) > 0 /\ ~isProcessing

\* processLoop reaches its sleep after the pass.
LoopGoesOn(listenerThrows) ==
    ~(Delivering /\ TryEmit(listenerThrows) = "escaped")

\* The history of a delivery.
DeliveryHistory(listenerThrows) ==
    /\ deliveryGap' = sinceDelivery
    /\ sinceDelivery' = 0
    /\ deliveredMints' = deliveredMints \cup {Head(processingQueue).mint}
    /\ mintConsumedAgain' =
           (mintConsumedAgain
               \/ Head(processingQueue).mint
                      \in deliveredMints \cup evictedMints)
    /\ deliveredWhileStopped' = (deliveredWhileStopped \/ ~running)
    /\ listenersCalled' = EmitCalls(listenerThrows)
    /\ deliveriesSinceThrow' =
           IF listenerThrows THEN 0
           ELSE IF deliveriesSinceThrow >= 0 THEN 1
           ELSE deliveriesSinceThrow

\* The same, delivering the head of the queue without removing it.
LoopPassPeeking(listenerThrows) ==
    IF Len(processingQueue) > 0 /\ ~isProcessing
    THEN /\ DeliveryHistory(listenerThrows)
         /\ UNCHANGED <<processingQueue, enqLog, isProcessing, evictedMints>>
    ELSE UNCHANGED queueVars

\* One pass of the body of processLoop's while: deliver the head of the
\* queue to the 'newToken' listeners.
LoopPass(listenerThrows) ==
    IF Len(processingQueue) > 0 /\ ~isProcessing
    THEN /\ processingQueue' = Tail(processingQueue)
         /\ enqLog' = Tail(processingQueue)
         /\ isProcessing' = (TryEmit(listenerThrows) = "escaped")
         /\ DeliveryHistory(listenerThrows)
         /\ UNCHANGED evictedMints
    ELSE UNCHANGED queueVars

\* start() resumed after `await subscribeToPumpfun()`: startProcessingLoop
\* runs processLoop up to its first sleep.
StartProcessingLoop ==
    /\ startPending # <<>>
    /\ Head(startPending) = "startProcessingLoop"
    /\ startPending' = Tail(startPending)
    /\ IF running
       THEN \E listenerThrows \in ThrowChoices :
                /\ LoopPass(listenerThrows)
                /\ loops' = IF LoopGoesOn(listenerThrows)
                            THEN [loops EXCEPT ![RPC_REQUEST_DELAY_MS] = @ + 1]
                            ELSE loops
       ELSE UNCHANGED <<queueVars, loops>>
    /\ UNCHANGED <<running, subscriptionId, onLogsCalls, raydiumSubs,
                   pumpfunSubs, stopPending, startCalls, stopCalls,
                   queuedAtStop, gateVars,
                   adapterVars, riskVars,
                   socketVars, serviceVars>>

\* A processLoop task wakes from its sleep.
LoopWake ==
    /\ NoMicrotask
    /\ loops[0] > 0
    /\ IF running
       THEN \E listenerThrows \in ThrowChoices :
                /\ LoopPass(listenerThrows)
                /\ loops' = IF LoopGoesOn(listenerThrows)
                            THEN [loops EXCEPT ![0] = @ - 1,
                                               ![RPC_REQUEST_DELAY_MS] = @ + 1]
                            ELSE [loops EXCEPT ![0] = @ - 1]
       ELSE /\ loops' = [loops EXCEPT ![0] = @ - 1]
            /\ UNCHANGED queueVars
    /\ UNCHANGED <<lifecycleVars, gateVars, adapterVars, riskVars,
                   socketVars, serviceVars>>

\* ws.close(): a socket that is connecting or open starts to close (its
\* 'close' event comes later); on a closing or closed socket nothing happens.
WebSocketClose(state) ==
    IF state \in {"connecting", "open"} THEN "closing" ELSE state

\* A bug: stop() also empties the queue (this.processingQueue = []).
MonitorStopClearing(maxStops) ==
    /\ stopCalls < maxStops
    /\ stopCalls' = stopCalls + 1
    /\ running' = FALSE
    /\ queuedAtStop' = MintsIn(processingQueue)
    /\ processingQueue' = <<>>
    /\ IF pumpfunWs # 0
       THEN /\ sockets' = [sockets EXCEPT ![pumpfunWs] = WebSocketClose(@)]
            /\ pumpfunWs' = 0
       ELSE UNCHANGED <<pumpfunWs, sockets>>
    /\ IF subscriptionId # 0
       THEN /\ pumpfunSubs' = pumpfunSubs \ {subscriptionId}
            /\ stopPending' = stopPending + 1
       ELSE UNCHANGED <<pumpfunSubs, stopPending>>
    /\ UNCHANGED <<subscriptionId, onLogsCalls, raydiumSubs, startPending,
                   startCalls, loops, gateVars, isProcessing, enqLog,
                   evictedMints, mintConsumedAgain, deliveryVars, adapterVars,
                   riskVars, pumpfunWsUrl, reconnects,
                   socketOpenedWhileStopped>>

\* stop(), up to its await (or to its end when nothing is subscribed).
MonitorStop(maxStops) ==
    /\ stopCalls < maxStops
    /\ stopCalls' = stopCalls + 1
    /\ running' = FALSE
    /\ queuedAtStop' = MintsIn(processingQueue)
    /\ IF pumpfunWs # 0
       THEN /\ sockets' = [sockets EXCEPT ![pumpfunWs] = WebSocketClose(@)]
            /\ pumpfunWs' = 0
       ELSE UNCHANGED <<pumpfunWs, sockets>>
    /\ IF subscriptionId # 0
       THEN /\ pumpfunSubs' = pumpfunSubs \ {subscriptionId}
            /\ stopPending' = stopPending + 1
       ELSE UNCHANGED <<pumpfunSubs, stopPending>>
    /\ UNCHANGED <<subscriptionId, onLogsCalls, raydiumSubs, startPending,
                   startCalls, loops, gateVars, queueVars, adapterVars,
                   riskVars, pumpfunWsUrl, reconnects,
                   socketOpenedWhileStopped>>

\* monitor.stop() called on the monitor itself.
Stop(maxStops) ==
    /\ MonitorStop(maxStops)
    /\ UNCHANGED serviceVars

\* ScannerService.start(), up to the first await of monitor.start(): when
\* the service is not running it registers one more 'newToken' listener
\* (an async function: it starts an analysis and never throws to emit).
ServiceStart(maxStarts) ==
    /\ serviceStartCalls < maxStarts
    /\ serviceStartCalls' = serviceStartCalls + 1
    /\ IF serviceRunning
       THEN UNCHANGED <<serviceRunning, listeners, lifecycleVars, loops,
                        gateVars, queueVars, adapterVars, riskVars,
                        socketVars>>
       ELSE /\ serviceRunning' = TRUE
            /\ listeners' = Append(listeners, "analyze")
            /\ MonitorStart(maxStarts)
    /\ UNCHANGED serviceStopCalls

\* ScannerService.stop(), up to the await inside monitor.stop().
ServiceStop(maxStops) ==
    /\ serviceStopCalls < maxStops
    /\ serviceStopCalls' = serviceStopCalls + 1
    /\ IF ~serviceRunning
       THEN UNCHANGED <<serviceRunning, lifecycleVars, loops, gateVars,
                        queueVars, adapterVars, riskVars, socketVars>>
       ELSE /\ serviceRunning' = FALSE
            /\ MonitorStop(maxStops)
    /\ UNCHANGED <<listeners, serviceStartCalls>>

\* stop() resumed after `await removeOnLogsListener(..)`, resolved or
\* rejected (the catch ignores the error).
StopAfterRemove ==
    /\ NoMicrotask
    /\ stopPending > 0
    /\ stopPending' = stopPending - 1
    /\ subscriptionId' = 0
    /\ UNCHANGED <<running, onLogsCalls, raydiumSubs, pumpfunSubs,
                   startPending, startCalls, stopCalls, queuedAtStop, loops,
                   gateVars,
                   queueVars, adapterVars, riskVars,
                   socketVars, serviceVars>>

\* triggerAnalysis(mint).
TriggerAnalysis(mint, maxEnqueued) ==
    /\ Len(enqLog) < maxEnqueued
    /\ processingQueue' =
           queueToken(processingQueue, TokenLaunchEvent(mint, "OTHER"))
    /\ enqLog' = Append(enqLog, TokenLaunchEvent(mint, "OTHER"))
    /\ Evictions
    /\ UNCHANGED <<isProcessing, deliveryVars, loops, lifecycleVars, gateVars,
                   adapterVars, riskVars,
                   socketVars, serviceVars>>

\* The 'open' event of a socket.
SocketOpened(sid) ==
    /\ NoMicrotask
    /\ sockets[sid] = "connecting"
    /\ sockets' = [sockets EXCEPT ![sid] = "open"]
    /\ UNCHANGED <<pumpfunWsUrl, pumpfunWs, reconnects,
                   socketOpenedWhileStopped, lifecycleVars, loops, gateVars,
                   queueVars, adapterVars, riskVars, serviceVars>>

\* The 'close' event of a socket: the connection failed, was lost, or was
\* closed by close().  The handler schedules a reconnection when the
\* monitor is running.
SocketClosed(sid) ==
    /\ NoMicrotask
    /\ sockets[sid] \in {"connecting", "open", "closing"}
    /\ sockets' = [sockets EXCEPT ![sid] = "closed"]
    /\ reconnects' = IF running
                     THEN [reconnects EXCEPT ![RECONNECT_DELAY_MS] = @ + 1]
                     ELSE reconnects
    /\ UNCHANGED <<pumpfunWsUrl, pumpfunWs, socketOpenedWhileStopped,
                   lifecycleVars, loops, gateVars, queueVars, adapterVars,
                   riskVars, serviceVars>>

\* A reconnection timer fires: setTimeout(() => this.connectPumpfunWs()).
ReconnectFire ==
    /\ NoMicrotask
    /\ reconnects[0] > 0
    /\ CanConnect
    /\ reconnects' = [reconnects EXCEPT ![0] = @ - 1]
    /\ connectPumpfunWs(running)
    /\ UNCHANGED <<pumpfunWsUrl, lifecycleVars, loops, gateVars, queueVars,
                   adapterVars, riskVars, serviceVars>>

\* The 'message' event of an open socket, with a 'newToken' message.
PushMessage(sid, mint, maxEnqueued) ==
    /\ NoMicrotask
    /\ sockets[sid] = "open"
    /\ Len(enqLog) < maxEnqueued
    /\ processingQueue' =
           queueToken(processingQueue, TokenLaunchEvent(mint, "PUMPFUN"))
    /\ enqLog' = Append(enqLog, TokenLaunchEvent(mint, "PUMPFUN"))
    /\ Evictions
    /\ UNCHANGED <<isProcessing, deliveryVars, loops, lifecycleVars, gateVars,
                   adapterVars, riskVars, socketVars, serviceVars>>

\* A handler one tick later.
TickHandler(h) ==
    [h EXCEPT
        !.timer = Down(@),
        !.sinceIssue =
            IF h.pc = "gateSleep" /\ h.attempts = 0
            THEN Age(@, RPC_REQUEST_DELAY_MS) ELSE @,
        !.sinceStart =
            IF h.pc = "opPending" THEN Age(@, RPC_REQUEST_DELAY_MS) ELSE @,
        !.sinceFail =
            IF h.pc \in {"retrySleep", "gateSleep"} /\ h.attempts > 0
            THEN Age(@, RETRY_DELAY_MS) ELSE @]

\* TickMs of time pass.
Tick ==
    /\ NoMicrotask
    /\ loops' = [t \in LoopTimes |->
                    IF t = 0 THEN loops[0] + loops[TickMs]
                    ELSE IF t + TickMs \in LoopTimes THEN loops[t + TickMs]
                    ELSE 0]
    /\ handlers' = [h \in HandlerIds |-> TickHandler(handlers[h])]
    /\ timeSinceLastRequest' = Age(timeSinceLastRequest, RPC_REQUEST_DELAY_MS)
    /\ sinceOpStart' = Age(sinceOpStart, RPC_REQUEST_DELAY_MS)
    /\ sinceCompletedStart' = Age(sinceCompletedStart, RPC_REQUEST_DELAY_MS)
    /\ sinceOpSettled' = Age(sinceOpSettled, RPC_REQUEST_DELAY_MS)
    /\ sinceDelivery' = Age(sinceDelivery, RPC_REQUEST_DELAY_MS)
    /\ reconnects' = [t \in ReconnectTimes |->
                         IF t = 0 THEN reconnects[0] + reconnects[TickMs]
                         ELSE IF t + TickMs \in ReconnectTimes
                              THEN reconnects[t + TickMs]
                         ELSE 0]
    /\ UNCHANGED <<opStartGap, opSettledGap, rateLimited, lifecycleVars,
                   processingQueue, isProcessing, enqLog, evictedMints,
                   mintConsumedAgain, deliveryGap, deliveredMints,
                   deliveredWhileStopped, processedMints, logEmitted,
                   riskVars, pumpfunWsUrl, pumpfunWs, sockets,
                   socketOpenedWhileStopped, serviceVars, listenersCalled,
                   deliveriesSinceThrow>>

(***************************************************************************)
(* Log-notification handlers and the request gate.  A step of a handler    *)
(* is computed on a context: the handler's record and the monitor fields   *)
(* the step reads or writes.                                               *)
(***************************************************************************)
Context(hid) ==
    [h |-> handlers[hid],
     timeSinceLastRequest |-> timeSinceLastRequest,
     sinceOpStart |-> sinceOpStart,
     opStartGap |-> opStartGap,
     sinceCompletedStart |-> sinceCompletedStart,
     sinceOpSettled |-> sinceOpSettled,
     opSettledGap |-> opSettledGap,
     processedMints |-> processedMints,
     processingQueue |-> processingQueue,
     enqLog |-> enqLog,
     logEmitted |-> logEmitted,
     rateLimited |-> rateLimited,
     stopCalls |-> stopCalls]

Commit(hid, c) ==
    /\ handlers' = [handlers EXCEPT ![hid] = c.h]
    /\ timeSinceLastRequest' = c.timeSinceLastRequest
    /\ sinceOpStart' = c.sinceOpStart
    /\ opStartGap' = c.opStartGap
    /\ sinceCompletedStart' = c.sinceCompletedStart
    /\ sinceOpSettled' = c.sinceOpSettled
    /\ opSettledGap' = c.opSettledGap
    /\ processedMints' = c.processedMints
    /\ processingQueue' = c.processingQueue
    /\ enqLog' = c.enqLog
    /\ logEmitted' = c.logEmitted
    /\ rateLimited' = c.rateLimited
    /\ Evictions
    /\ UNCHANGED <<isProcessing, deliveryVars, loops, lifecycleVars, riskVars,
                   socketVars, serviceVars>>

\* rateLimitedRequest from `this.lastRequestTime = Date.now()` to the
\* await of fn(): the operation is started.
StartOperation(c) ==
    [c EXCEPT
        !.timeSinceLastRequest = 0,
        !.opStartGap = c.sinceOpStart,
        !.opSettledGap = c.sinceOpSettled,
        !.sinceOpStart = 0,
        !.h = [c.h EXCEPT
                  !.pc = "opPending",
                  !.timer = 0,
                  !.attempts = @ + 1,
                  !.sinceStart = 0,
                  !.gapFromPrev =
                      IF c.h.attempts = 0 THEN c.h.sinceIssue ELSE @,
                  !.sinceIssue = RPC_REQUEST_DELAY_MS,
                  !.retryGap =
                      IF c.h.attempts > 0 THEN c.h.sinceFail ELSE @,
                  !.sinceFail = RETRY_DELAY_MS]]

\* The same, starting the operation at once.
rateLimitedRequestNoPacing(c) ==
    StartOperation(c)

\* rateLimitedRequest from its entry to its first await.
rateLimitedRequest(c) ==
    IF c.timeSinceLastRequest < RPC_REQUEST_DELAY_MS
    THEN [c EXCEPT
             !.h = [c.h EXCEPT
                       !.pc = "gateSleep",
                       !.timer = RPC_REQUEST_DELAY_MS - c.timeSinceLastRequest]]
    ELSE StartOperation(c)

\* A handler calls this.rateLimitedRequest(fn) (retries = MAX_RETRIES).
CallGate(c, fn) ==
    rateLimitedRequest(
        [c EXCEPT
            !.h = [c.h EXCEPT
                      !.fn = fn,
                      !.retries = MAX_RETRIES,
                      !.attempts = 0,
                      !.sinceIssue = c.sinceCompletedStart]])

\* The gate call of the handler is over: `how` is "value", "null" or "throw",
\* `returned` what it returned.
CallOver(c, how, outcome, returned) ==
    [c EXCEPT
        !.sinceCompletedStart = Min(@, c.h.sinceStart),
        !.h = [c.h EXCEPT
                  !.lastCall = [how |-> how, fn |-> c.h.fn,
                                outcome |-> outcome.kind,
                                attempts |-> c.h.attempts,
                                returnedResult |->
                                    returned = outcome.value],
                  !.calls = @ + 1,
                  !.fn = "none",
                  !.retries = 0,
                  !.attempts = 0,
                  !.sinceStart = RPC_REQUEST_DELAY_MS,
                  !.gapFromPrev = RPC_REQUEST_DELAY_MS,
                  !.retryGap = RETRY_DELAY_MS]]

\* The handler returns (or its catch has logged the error).
Finished(c) ==
    [c EXCEPT !.h = [c.h EXCEPT !.pc = "done", !.keys = <<>>, !.idx = 0]]

\* processedMints.add(mint); queueToken({mint, platform, ..}).
Emit(c, mint) ==
    [c EXCEPT
        !.processedMints = @ \cup {mint},
        !.processingQueue = queueToken(@, TokenLaunchEvent(mint, c.h.platform)),
        !.enqLog = Append(@, TokenLaunchEvent(mint, c.h.platform)),
        !.logEmitted = [@ EXCEPT ![mint] = @ + 1],
        !.h = [c.h EXCEPT
                  !.emittedAfterStop = (@ \/ c.stopCalls > c.h.stopsAtEntry)]]

WRAPPED_SOL == "So11111111111111111111111111111111111111112"

isKnownToken(mint) == mint \in {WRAPPED_SOL}

AccountKeys == Mints \cup {WRAPPED_SOL}

\* processPumpfunLogs, the loops over the inner instructions: `mints` are
\* the mints of the initializeMint instructions, in order.
RECURSIVE PumpfunScan(_, _)
PumpfunScan(c, mints) ==
    IF mints = <<>> THEN Finished(c)
    ELSE IF Head(mints) \notin c.processedMints
         THEN PumpfunScan(Emit(c, Head(mints)), Tail(mints))
         ELSE PumpfunScan(c, Tail(mints))

\* processRaydiumLogs, the for-loop over accountKeys from position h.idx
\* to its next await (or to its end).
RECURSIVE RaydiumScan(_)
RaydiumScan(c) ==
    IF c.h.idx > Len(c.h.keys) THEN Finished(c)
    ELSE IF \/ isKnownToken(c.h.keys[c.h.idx])
            \/ c.h.keys[c.h.idx] \in c.processedMints
         THEN RaydiumScan([c EXCEPT !.h = [c.h EXCEPT !.idx = @ + 1]])
         ELSE CallGate(c, "getAccountInfo")

\* processRaydiumLogs resumed with the value of getAccountInfo.
AfterAccountInfo(c, accountInfo) ==
    RaydiumScan(
        [(IF ~accountInfo.isNull /\ accountInfo.dataLength = 82
          THEN Emit(c, c.h.keys[c.h.idx])
          ELSE c)
         EXCEPT !.h.idx = @ + 1])

\* The handler resumed after `await this.rateLimitedRequest(..)` for the
\* operation `fn`: `how` says whether the call returned or threw.
AfterGate(c, fn, how, value) ==
    IF how = "throw" THEN Finished(c)
    ELSE IF fn = "getParsedTransaction"
    THEN IF value.isNull THEN Finished(c)
         ELSE IF c.h.platform = "PUMPFUN"
              THEN PumpfunScan(c, value.initializedMints)
              ELSE RaydiumScan(
                       [c EXCEPT !.h = [c.h EXCEPT
                                           !.keys = value.accountKeys,
                                           !.idx = 1]])
    ELSE AfterAccountInfo(c, value)

SeqsUpTo(S, n) == UNION {[1..k -> S] : k \in 0..n}

\* What an operation resolves to: null, a parsed transaction or an account.
Value(isNull, accountKeys, initializedMints, dataLength) ==
    [isNull |-> isNull, accountKeys |-> accountKeys,
     initializedMints |-> initializedMints, dataLength |-> dataLength]

NullValue == Value(TRUE, <<>>, <<>>, 0)

\* What getParsedTransaction may resolve to, for a handler of `platform`
\* (which reads accountKeys only, or the inner instructions only).
Transactions(platform) ==
    {NullValue} \cup
    IF platform = "PUMPFUN"
    THEN {Value(FALSE, <<>>, s, 0) : s \in SeqsUpTo(Mints, MaxKeys)}
    ELSE {Value(FALSE, s, <<>>, 0) :
             s \in SeqsUpTo(AccountKeys, MaxKeys) \ {<<>>}}

\* What getAccountInfo may resolve to: a mint account has 82 bytes.
AccountInfos ==
    {NullValue, Value(FALSE, <<>>, <<>>, 82), Value(FALSE, <<>>, <<>>, 165)}

\* How an operation may settle: a value, a 429 error, another error.
Outcomes(fn, platform) ==
    {[kind |-> "ok", value |-> v] :
        v \in IF fn = "getParsedTransaction"
              THEN Transactions(platform) ELSE AccountInfos}
    \cup {[kind |-> "rateLimited", value |-> NullValue],
          [kind |-> "otherError", value |-> NullValue]}

\* The same, raising once the retries are exhausted.
OperationSettledThrowing(c, outcome) ==
    IF outcome.kind = "ok"
    THEN AfterGate(CallOver(c, "value", outcome, outcome.value), c.h.fn,
                   "value", outcome.value)
    ELSE IF outcome.kind = "rateLimited"
    THEN IF c.h.retries > 0
         THEN [c EXCEPT
                  !.rateLimited = @ + 1,
                  !.h = [c.h EXCEPT
                            !.pc = "retrySleep",
                            !.timer = RETRY_DELAY_MS,
                            !.sinceFail = 0,
                            !.sinceStart = RPC_REQUEST_DELAY_MS]]
         ELSE AfterGate(
                  CallOver([c EXCEPT !.rateLimited = @ + 1], "throw", outcome,
                           NullValue),
                  c.h.fn, "throw", NullValue)
    ELSE AfterGate(CallOver(c, "throw", outcome, NullValue), c.h.fn, "throw",
                   NullValue)

\* The same, treating every error as a rate-limit error.
OperationSettledRetryingAll(c, outcome) ==
    IF outcome.kind = "ok"
    THEN AfterGate(CallOver(c, "value", outcome, outcome.value), c.h.fn,
                   "value", outcome.value)
    ELSE IF c.h.retries > 0
    THEN [c EXCEPT
             !.rateLimited =
                 IF outcome.kind = "rateLimited" THEN @ + 1 ELSE @,
             !.h = [c.h EXCEPT
                       !.pc = "retrySleep",
                       !.timer = RETRY_DELAY_MS,
                       !.sinceFail = 0,
                       !.sinceStart = RPC_REQUEST_DELAY_MS]]
    ELSE AfterGate(
             CallOver([c EXCEPT
                          !.rateLimited =
                              IF outcome.kind = "rateLimited" THEN @ + 1
                              ELSE @],
                      "null", outcome, NullValue),
             c.h.fn, "null", NullValue)

\* rateLimitedRequest resumed when fn() settles, and the handler after it
\* when the call is over.
OperationSettled(c, outcome) ==
    IF outcome.kind = "ok"
    THEN AfterGate(CallOver(c, "value", outcome, outcome.value), c.h.fn,
                   "value", outcome.value)
    ELSE IF outcome.kind = "rateLimited"
    THEN IF c.h.retries > 0
         THEN [c EXCEPT
                  !.rateLimited = @ + 1,
                  !.h = [c.h EXCEPT
                            !.pc = "retrySleep",
                            !.timer = RETRY_DELAY_MS,
                            !.sinceFail = 0,
                            !.sinceStart = RPC_REQUEST_DELAY_MS]]
         ELSE AfterGate(
                  CallOver([c EXCEPT !.rateLimited = @ + 1], "null", outcome,
                           NullValue),
                  c.h.fn, "null", NullValue)
    ELSE AfterGate(CallOver(c, "throw", outcome, NullValue), c.h.fn, "throw",
                   NullValue)

\* A log notification reaches the callback of a subscription; the lowest
\* free slot handles it.
LogNotification(hid, platform, matches) ==
    /\ NoMicrotask
    /\ handlers[hid].pc = "idle"
    /\ \A g \in HandlerIds : g < hid => handlers[g].pc # "idle"
    /\ IF platform = "RAYDIUM" THEN raydiumSubs > 0 ELSE pumpfunSubs # {}
    /\ IF running /\ matches
       THEN Commit(hid, [Context(hid) EXCEPT
                            !.h = [IdleHandler EXCEPT
                                      !.pc = "finality",
                                      !.platform = platform,
                                      !.timer = FINALITY_DELAY_MS,
                                      !.stopsAtEntry = stopCalls]])
       ELSE UNCHANGED vars

\* sleep(3000) is over: the handler asks for the transaction.
FinalityElapsed(hid) ==
    /\ NoMicrotask
    /\ handlers[hid].pc = "finality"
    /\ handlers[hid].timer = 0
    /\ Commit(hid, CallGate(Context(hid), "getParsedTransaction"))

\* The sleep of the gate is over.
GateWake(hid) ==
    /\ NoMicrotask
    /\ handlers[hid].pc = "gateSleep"
    /\ handlers[hid].timer = 0
    /\ Commit(hid, StartOperation(Context(hid)))

\* The operation settles; at most `maxRateLimited` operations of a run are
\* answered with a 429 error.
OpSettle(hid, maxRateLimited) ==
    /\ NoMicrotask
    /\ handlers[hid].pc = "opPending"
    /\ \E outcome \in Outcomes(handlers[hid].fn, handlers[hid].platform) :
           /\ outcome.kind = "rateLimited" => rateLimited < maxRateLimited
           /\ Commit(hid, OperationSettled(
                              [Context(hid) EXCEPT !.sinceOpSettled = 0],
                              outcome))

\* sleep(RETRY_DELAY_MS) is over: rateLimitedRequest(fn, retries - 1).
RetryWake(hid) ==
    /\ NoMicrotask
    /\ handlers[hid].pc = "retrySleep"
    /\ handlers[hid].timer = 0
    /\ Commit(hid, rateLimitedRequest(
                       [Context(hid) EXCEPT !.h.retries = @ - 1]))

(***************************************************************************)
(* Specifications.                                                         *)
(***************************************************************************)
Init == RiskInit /\ MonitorInit

\* The risk utilities and the analyzer, each called once on any input.
SpecRisk == Init /\ [][RiskNext]_vars

\* The RugCheck client and analyze() on top of it, each called once.
SpecRugcheck == Init /\ [][RugcheckNext]_vars

\* The admission queue: one start(), manual triggers, the delivery loop.
QueueNext ==
    \/ Start(1)
    \/ StartSubscribePumpfun
    \/ StartProcessingLoop
    \/ LoopWake
    \/ \E mint \in Mints : TriggerAnalysis(mint, QueueEnqueued)
    \/ Tick

SpecQueue == Init /\ [][QueueNext]_vars

Platforms == {"RAYDIUM", "PUMPFUN"}

\* The log adapters: one start(), notifications handled concurrently.
LogsNext ==
    \/ Start(1)
    \/ StartSubscribePumpfun
    \/ StartProcessingLoop
    \/ LoopWake
    \/ \E hid \in HandlerIds, platform \in Platforms :
           LogNotification(hid, platform, TRUE)
    \/ \E hid \in HandlerIds : FinalityElapsed(hid)
    \/ \E hid \in HandlerIds : GateWake(hid)
    \/ \E hid \in HandlerIds : OpSettle(hid, LogsRateLimited)
    \/ \E hid \in HandlerIds : RetryWake(hid)
    \/ Tick

SpecLogs == Init /\ [][LogsNext]_vars

\* The request gate under one caller: a single notification, any number of
\* 429 answers.  Time passes, timers fire, continuations run and every
\* operation settles.
GateNext ==
    \/ Start(1)
    \/ StartSubscribePumpfun
    \/ StartProcessingLoop
    \/ LoopWake
    \/ \E platform \in Platforms : LogNotification(1, platform, TRUE)
    \/ FinalityElapsed(1)
    \/ GateWake(1)
    \/ OpSettle(1, 2 * (1 + MAX_RETRIES))
    \/ RetryWake(1)
    \/ Tick

GateFairness ==
    /\ WF_vars(StartSubscribePumpfun)
    /\ WF_vars(StartProcessingLoop)
    /\ WF_vars(LoopWake)
    /\ WF_vars(FinalityElapsed(1))
    /\ WF_vars(GateWake(1))
    /\ WF_vars(OpSettle(1, 2 * (1 + MAX_RETRIES)))
    /\ WF_vars(RetryWake(1))
    /\ WF_vars(Tick)

SpecGate == Init /\ [][GateNext]_vars /\ GateFairness

\* The monitor started, stopped and started again, with manual triggers.
LifecycleNext ==
    \/ Start(MaxStarts)
    \/ StartSubscribePumpfun
    \/ StartProcessingLoop
    \/ Stop(MaxStops)
    \/ StopAfterRemove
    \/ LoopWake
    \/ \E mint \in Mints : TriggerAnalysis(mint, LifecycleEnqueued)
    \/ Tick

SpecLifecycle == Init /\ [][LifecycleNext]_vars

\* One log notification in flight while the monitor is stopped (its
\* operations are never rate limited).
ShutdownNext ==
    \/ Start(1)
    \/ StartSubscribePumpfun
    \/ StartProcessingLoop
    \/ Stop(1)
    \/ StopAfterRemove
    \/ LoopWake
    \/ \E platform \in Platforms : LogNotification(1, platform, TRUE)
    \/ FinalityElapsed(1)
    \/ GateWake(1)
    \/ OpSettle(1, 0)
    \/ Tick

SpecShutdown == Init /\ [][ShutdownNext]_vars

\* Delivery of events that are told apart: every event enqueued carries a
\* mint of its own, named by its rank among the enqueues.  Once started the
\* monitor is not stopped; time passes, the loop's timer fires and the
\* continuations of start() run.
SerialMints == 1..DeliveryEvents

AcceptedMints == MintsIn(processingQueue) \cup deliveredMints \cup evictedMints

DeliveryNext ==
    \/ Start(1)
    \/ StartSubscribePumpfun
    \/ StartProcessingLoop
    \/ LoopWake
    \/ \E mint \in SerialMints :
           /\ mint \notin AcceptedMints
           /\ \A m \in SerialMints : m < mint => m \in AcceptedMints
           /\ TriggerAnalysis(mint, DeliveryEvents)
    \/ Tick

DeliveryFairness ==
    /\ WF_vars(StartSubscribePumpfun)
    /\ WF_vars(StartProcessingLoop)
    /\ WF_vars(LoopWake)
    /\ WF_vars(Tick)

SpecDelivery == Init /\ [][DeliveryNext]_vars /\ DeliveryFairness

\* Delivery to a listener that may throw: the monitor is started once and
\* not stopped, ThrowEvents events are enqueued one after another, each
\* with a mint of its own.
InitThrowing == RiskInit /\ MonitorInitThrowing

ThrowMints == 1..ThrowEvents

ThrowNext ==
    \/ Start(1)
    \/ StartSubscribePumpfun
    \/ StartProcessingLoop
    \/ LoopWake
    \/ \E mint \in ThrowMints :
           /\ mint \notin AcceptedMints
           /\ \A m \in ThrowMints : m < mint => m \in AcceptedMints
           /\ TriggerAnalysis(mint, ThrowEvents)
    \/ Tick

SpecThrow == InitThrowing /\ [][ThrowNext]_vars /\ DeliveryFairness

\* Stopping and restarting the monitor with events in the queue: one
\* stop(), start() calls before and after it, RestartEvents events enqueued
\* one after another, each with a mint of its own; time passes, timers
\* fire and continuations run.
RestartMints == 1..RestartEvents

RestartNext ==
    \/ Start(MaxStarts)
    \/ StartSubscribePumpfun
    \/ StartProcessingLoop
    \/ Stop(1)
    \/ StopAfterRemove
    \/ LoopWake
    \/ \E mint \in RestartMints :
           /\ mint \notin AcceptedMints
           /\ \A m \in RestartMints : m < mint => m \in AcceptedMints
           /\ TriggerAnalysis(mint, RestartEvents)
    \/ Tick

RestartFairness ==
    /\ DeliveryFairness
    /\ WF_vars(StopAfterRemove)

SpecRestart == Init /\ [][RestartNext]_vars /\ RestartFairness

\* The ScannerService around the monitor: start() and stop() of the
\* service, manual enqueues, the delivery loop.
ServiceNext ==
    \/ ServiceStart(MaxStarts)
    \/ StartSubscribePumpfun
    \/ StartProcessingLoop
    \/ ServiceStop(MaxStops)
    \/ StopAfterRemove
    \/ LoopWake
    \/ TriggerAnalysis("mintA", LifecycleEnqueued)
    \/ Tick

SpecService == Init /\ [][ServiceNext]_vars

\* The pump.fun WebSocket of a monitor built with a url: start() and
\* stop(), the socket's events, the reconnection timer.
InitWs == RiskInit /\ MonitorInitWs

SocketNext ==
    \/ Start(MaxStarts)
    \/ StartSubscribePumpfun
    \/ StartProcessingLoop
    \/ Stop(SocketStops)
    \/ StopAfterRemove
    \/ LoopWake
    \/ \E sid \in SocketIds : SocketOpened(sid)
    \/ \E sid \in SocketIds : SocketClosed(sid)
    \/ ReconnectFire
    \/ \E sid \in SocketIds : PushMessage(sid, "mintA", PushEnqueued)
    \/ Tick

SpecSocket == InitWs /\ [][SocketNext]_vars

(***************************************************************************)
(* Properties of the admission queue (SpecQueue).                          *)
(***************************************************************************)

\* C5: the queue never holds more than 10 events, and it holds exactly the
\* last min(n, 10) of the n events enqueued since the last delivery, in
\* the order they were enqueued.
C5_QueueBoundedDropOldest ==
    /\ Len(processingQueue) <= 10
    /\ processingQueue = LastN(enqLog, 10)

\* Eleven events enqueued with no delivery in between: the first is gone
\* and events 2..11 remain in order.
C5_Witness ==
    /\ Len(enqLog) = 11
    /\ enqLog[1] # enqLog[11]
    /\ processingQueue = Tail(enqLog)

\* C6: the queue never holds two events with the same mint.
C6_QueueHoldsNoDuplicateMint ==
    \A i, j \in 1..Len(processingQueue) :
        i # j => processingQueue[i].mint # processingQueue[j].mint

(***************************************************************************)
(* Properties of the log adapters and of the request gate.                 *)
(***************************************************************************)

\* C7: the pump.fun and Raydium handlers together enqueue at most one event
\* per mint, however the handlers in flight interleave.
C7_AtMostOneEventPerMint ==
    \A m \in Mints : logEmitted[m] <= 1

\* C8: any two operations started by the gate are started at least
\* RPC_REQUEST_DELAY_MS apart, whoever the callers are.
C8_OperationStartsSpaced ==
    opStartGap >= RPC_REQUEST_DELAY_MS

\* C9: the first operation run of a gate call starts at least
\* RPC_REQUEST_DELAY_MS after the operation runs of every call that had
\* returned when the call was issued.
C9_ConsecutiveCallsSpaced ==
    \A h \in HandlerIds : handlers[h].gapFromPrev >= RPC_REQUEST_DELAY_MS

\* A handler's getAccountInfo operation is running: the call was issued
\* after the handler's getParsedTransaction call returned a value, while
\* another handler is held in the gate.
C9_Witness ==
    \E h, g \in HandlerIds :
        /\ handlers[h].pc = "opPending"
        /\ handlers[h].fn = "getAccountInfo"
        /\ handlers[h].attempts = 1
        /\ handlers[h].calls = 1
        /\ handlers[h].lastCall.fn = "getParsedTransaction"
        /\ handlers[h].lastCall.how = "value"
        /\ handlers[h].sinceStart = 0
        /\ sinceCompletedStart = RPC_REQUEST_DELAY_MS
        /\ handlers[g].pc = "gateSleep"

InGateCall(h) == handlers[h].pc \in {"gateSleep", "opPending", "retrySleep"}

\* The gate runs the operation of a call at most 1 + MAX_RETRIES times,
\* starts a retry no sooner than RETRY_DELAY_MS after the failure, ends a
\* call whose last run failed with a 429 error by returning null after
\* exactly 1 + MAX_RETRIES runs, and returns the value of a run that
\* succeeded.
GateCallsBounded ==
    \A h \in HandlerIds :
        /\ handlers[h].attempts <= 1 + MAX_RETRIES
        /\ handlers[h].retryGap >= RETRY_DELAY_MS
        /\ handlers[h].lastCall.attempts <= 1 + MAX_RETRIES
        /\ handlers[h].lastCall.outcome = "rateLimited" =>
               /\ handlers[h].lastCall.how = "null"
               /\ handlers[h].lastCall.attempts = 1 + MAX_RETRIES
        /\ handlers[h].lastCall.outcome = "ok" =>
               /\ handlers[h].lastCall.how = "value"
               /\ handlers[h].lastCall.returnedResult

\* Every gate call under way is over at some later time.
GateCallsTerminate ==
    \A h \in HandlerIds : \A n \in 0..MaxKeys :
        (InGateCall(h) /\ handlers[h].calls = n) ~> (handlers[h].calls > n)

\* C10: an operation that fails with a 429 error on every run is run at
\* most 1 + MAX_RETRIES = 4 times, each retry after the cooldown, and the
\* call then returns null instead of raising; every call terminates, and a
\* run that succeeds has its value returned.
C10_BoundedRetriesThenNull ==
    []GateCallsBounded /\ GateCallsTerminate

\* A call has returned null after four runs that all failed with 429.
C10_Witness ==
    /\ handlers[1].lastCall.how = "null"
    /\ handlers[1].lastCall.outcome = "rateLimited"
    /\ handlers[1].lastCall.attempts = 4
    /\ rateLimited = 4

\* C11: an operation run that fails with an error other than 429 ends the
\* call on that run, the error raised to the caller: the gate enters its
\* cooldown only on a 429 error, and a call whose last run failed with
\* another error has thrown, whatever the runs before it did.
C11_OtherErrorsPropagateAtOnce ==
    [][\A h \in HandlerIds :
          /\ (handlers[h].pc = "opPending" /\ handlers'[h].pc = "retrySleep")
                 => rateLimited' = rateLimited + 1
          /\ handlers'[h].lastCall.outcome = "otherError"
                 => handlers'[h].lastCall.how = "throw"]_vars

\* A call has thrown on its third run, after two runs that failed with 429.
C11_Witness ==
    /\ handlers[1].lastCall.how = "throw"
    /\ handlers[1].lastCall.outcome = "otherError"
    /\ handlers[1].lastCall.attempts = 3
    /\ rateLimited = 2
    /\ handlers[1].pc = "done"

(***************************************************************************)
(* Properties of the delivery loop and of start() / stop().                *)
(***************************************************************************)

\* C12: two consecutive deliveries to 'newToken' are at least
\* RPC_REQUEST_DELAY_MS apart, and no event is delivered while the monitor
\* is stopped.
C12_DeliveriesSpaced ==
    /\ deliveryGap >= RPC_REQUEST_DELAY_MS
    /\ ~deliveredWhileStopped

LoopsAlive == loops[0] + loops[TickMs] + loops[RPC_REQUEST_DELAY_MS]

C14_NoEmissionAfterStop ==
    \A h \in HandlerIds : ~handlers[h].emittedAfterStop

(***************************************************************************)
(* Properties of the RugCheck client and of analyze() on top of it.        *)
(***************************************************************************)
ThirdPartyFailed ==
    /\ riskCall.op = "analyzeFetched"
    /\ riskCall.http.kind # "ok"
    /\ ~(riskCall.http.kind = "status" /\ riskCall.http.status = 404)

\* C15: analyze() returns an assessment, never raises, when fetching the
\* report or the on-chain data fails; after a failure of the RugCheck API
\* other than 404 the flags only the report supplies are false, and so are
\* the flags the chain could not supply either.
C15_AssessNeverRaises ==
    riskCall.op = "analyzeFetched" =>
        /\ riskRet.kind = "return"
        /\ ThirdPartyFailed =>
               /\ ~riskRet.value.flags.lpNotBurned
               /\ ~riskRet.value.flags.lowLiquidity
               /\ ~riskRet.value.flags.honeypot
               /\ ~riskCall.mintInfo.ok =>
                      /\ ~riskRet.value.flags.mintAuthorityActive
                      /\ ~riskRet.value.flags.freezeAuthorityActive
                      /\ ~riskRet.value.flags.metadataMutable

NotFound(http) == http.kind = "status" /\ http.status = 404

\* C16: on a 404 answer getTokenReport returns null without raising, and
\* analyze() returns the assessment of the on-chain-only path.
C16_NotFoundFallsBackOnChain ==
    /\ (riskCall.op = "getTokenReport" /\ NotFound(riskCall.http))
           => riskRet = [kind |-> "return", value |-> "null"]
    /\ (riskCall.op = "analyzeFetched" /\ NotFound(riskCall.http))
           => /\ riskRet.kind = "return"
              /\ riskRet.value =
                     analyzeOnChain(riskCall.mint, riskCall.mintInfo,
                                    riskCall.metadata, riskCall.holders)

\* analyze() after a 404: the assessment carries what the chain alone
\* told, here an active mint authority and concentrated holders.
C16_Witness ==
    /\ riskCall.op = "analyzeFetched"
    /\ NotFound(riskCall.http)
    /\ riskRet.kind = "return"
    /\ riskRet.value.flags.mintAuthorityActive
    /\ riskRet.value.flags.highHolderConcentration
    /\ ~riskRet.value.flags.lpNotBurned

\* No event leaves the queue twice: none is delivered twice, none is both
\* delivered and evicted, and an event that has left is not in the queue.
ConsumedAtMostOnce ==
    /\ ~mintConsumedAgain
    /\ deliveredMints \cap evictedMints = {}
    /\ MintsIn(processingQueue) \cap (deliveredMints \cup evictedMints) = {}
    /\ Cardinality(MintsIn(processingQueue)) = Len(processingQueue)

\* While the monitor runs, an event in the queue leaves it.
ConsumedEventually ==
    \A mint \in SerialMints :
        (running /\ mint \in MintsIn(processingQueue))
            ~> (mint \in deliveredMints \cup evictedMints)

\* C17: every event enqueued is consumed exactly once: it is delivered at
\* most once, never both delivered and evicted, and while the monitor
\* keeps running it is eventually delivered or evicted.
C17_ConsumedExactlyOnce ==
    []ConsumedAtMostOnce /\ ConsumedEventually

\* Twelve events enqueued: the first evicted by the eleventh, others
\* delivered, the last still queued.
C17_Witness ==
    /\ 1 \in evictedMints
    /\ 2 \in deliveredMints
    /\ 12 \in MintsIn(processingQueue)
    /\ running

\* C18: when the gate starts an operation, at least RPC_REQUEST_DELAY_MS
\* have passed since the operation run before it settled.
C18_DelaySinceCompletion ==
    opSettledGap >= RPC_REQUEST_DELAY_MS

\* The flags with the single flag f turned to true.
WithFlag(flags, f) == [flags EXCEPT ![f] = TRUE]

\* C19: the score is monotone in the flags: for every flag assignment and
\* every flag false in it, the score of the assignment with that one flag
\* turned to true is greater than or equal to the score returned.
C19_ScoreMonotoneInFlags ==
    riskCall.op = "calculateRiskScore" =>
        \A f \in FlagNames :
            ~riskCall.flags[f] =>
                calculateRiskScore(WithFlag(riskCall.flags, f))
                    >= riskRet.value

\* C19 witness: a score the clamp holds at 100 while a flag is still false;
\* turning that flag on leaves the score equal (monotone, not strictly).
C19_Witness ==
    /\ riskCall.op = "calculateRiskScore"
    /\ riskRet.value = 100
    /\ \E f \in FlagNames :
          /\ ~riskCall.flags[f]
          /\ calculateRiskScore(WithFlag(riskCall.flags, f)) = riskRet.value


\* C20: parseRiskFlags gives lpNotBurned = true for a report without the
\* lpLocked field; over lpLocked absent, false and true, lpNotBurned is false
\* only when lpLocked is true.
C20_AbsentLockMeansNotBurned ==
    riskCall.op = "parseRiskFlags" =>
        (riskRet.value.lpNotBurned <=> riskCall.report.lpLocked # "true")


\* The report's risk list holds an entry of level 'danger' whose name
\* matches the honeypot / cannot-sell pattern.
HasDangerHoneypotRisk(report) ==
    /\ report.risks.present
    /\ \E i \in 1..Len(report.risks.items) :
          /\ IsHoneypotRisk(report.risks.items[i])
          /\ report.risks.items[i].level = "danger"

\* C21: parseRiskFlags gives honeypot = true whenever the risk list holds
\* an entry of level 'danger' whose name matches the honeypot pattern,
\* whatever entries come before it in the list.
C21_DangerHoneypotAnywhereFlags ==
    (riskCall.op = "parseRiskFlags" /\ HasDangerHoneypotRisk(riskCall.report))
        => riskRet.value.honeypot


\* The sentences of a summary, as a set.
SentencesOf(summary) == {summary[i] : i \in 1..Len(summary)}

\* C22: generateRiskSummary returns the single 'no risk' sentence exactly
\* when no flag is true; otherwise it returns the fixed sentence of every
\* true flag once and of no false flag, so that the number of sentences is
\* the number of true flags.
C22_OneSentencePerTrueFlag ==
    riskCall.op = "generateRiskSummary" =>
        LET flags == riskCall.flags
            summary == riskRet.value
        IN  /\ (summary = <<NoRiskSentence>>) <=> (TrueFlags(flags) = {})
            /\ TrueFlags(flags) # {} =>
                  /\ Len(summary) = Cardinality(TrueFlags(flags))
                  /\ SentencesOf(summary) =
                         {IssueSentence(f) : f \in TrueFlags(flags)}

\* C22 witness: freeze authority and honeypot both true, another flag
\* false: two sentences, none for the false flags.
C22_Witness ==
    /\ riskCall.op = "generateRiskSummary"
    /\ TrueFlags(riskCall.flags) = {"freezeAuthorityActive", "honeypot"}
    /\ Len(riskRet.value) = 2


\* The flags analyzeOnChain holds before it looks at the holders.
FlagsBeforeHolders(mintInfo, metadata) ==
    Spread(AllFalseFlags, getOnChainFlags(mintInfo, metadata))

\* The sum of the ten largest balances of a list ordered largest first.
Top10Sum(accounts) == SumSeq(SubSeq(accounts, 1, Min(10, Len(accounts))))

\* C23: on the on-chain-only path, with an empty holder list or a supply
\* of zero highHolderConcentration keeps the value it had before the
\* check; otherwise it is true exactly when the ten largest balances sum
\* to more than 50% of the supply.
C23_HolderConcentrationOrUnknown ==
    (riskCall.op = "analyzeOnChain" /\ riskCall.holders.ok) =>
        LET holders == riskCall.holders
            flag == riskRet.value.flags.highHolderConcentration
        IN  IF Len(holders.accounts) = 0 \/ holders.supply = 0
            THEN flag = FlagsBeforeHolders(riskCall.mintInfo, riskCall.metadata)
                            .highHolderConcentration
            ELSE flag <=> (2 * Top10Sum(holders.accounts) > holders.supply)

\* C23 witness: more than ten accounts whose ten largest hold exactly half
\* of the supply: not "more than 50%", although all together hold more.
C23_Witness ==
    /\ riskCall.op = "analyzeOnChain"
    /\ riskCall.holders.ok
    /\ Len(riskCall.holders.accounts) > 10
    /\ 2 * Top10Sum(riskCall.holders.accounts) = riskCall.holders.supply
    /\ 2 * SumSeq(riskCall.holders.accounts) > riskCall.holders.supply
    /\ ~riskRet.value.flags.highHolderConcentration


\* C25: at most one processLoop task is alive while the monitor is running,
\* for any sequence of start() and stop() calls (a task that sleeps while
\* the monitor is stopped ends when it wakes, and is not counted against
\* the claim).
C25_SingleConsumerLoop ==
    running => LoopsAlive <= 1


\* The flags a fork can fix.
CriticalFlags == {"mintAuthorityActive", "freezeAuthorityActive", "honeypot"}

\* The call returned a RiskAssessment.
BuiltAssessment ==
    /\ riskCall.op \in {"analyze", "analyzeOnChain", "getRiskAssessment"}
    /\ riskRet.kind = "return"

C24_NoReconnectWhileStopped ==
    ~socketOpenedWhileStopped

\* The sockets that are open or being opened.
LiveSockets == {i \in SocketIds : sockets[i] \in {"connecting", "open"}}

\* C26: at most one WebSocket is open or being opened at any time, for any
\* sequence of start(), stop(), 'close' events and reconnection timers.
C26_AtMostOneSocket ==
    Cardinality(LiveSockets) <= 1


(***************************************************************************)
(* Properties of the delivery to the listeners.                            *)
(***************************************************************************)

\* A listener has thrown at some delivery.
ListenerThrew == deliveriesSinceThrow >= 0

\* C27: when a listener throws at a delivery the exception is caught: the
\* processLoop task stays alive and isProcessing is reset, and every event
\* in the queue from then on is delivered while the monitor runs.
C27_ThrowCaughtLoopContinues ==
    /\ [](ListenerThrew => (LoopsAlive = 1 /\ ~isProcessing))
    /\ \A m \in ThrowMints :
          (ListenerThrew /\ m \in MintsIn(processingQueue))
              ~> (m \in deliveredMints)

\* C27 witness: an event was delivered after a delivery in which the
\* listener threw, and the loop is still alive.
C27_Witness ==
    /\ deliveriesSinceThrow = 1
    /\ running
    /\ LoopsAlive = 1


\* C29: once ScannerService.start() has been called, exactly one
\* 'newToken' listener is registered on the monitor, whatever start() and
\* stop() calls follow, and a delivery calls exactly one listener (one
\* analysis, so at most one 'forkOpportunity' per delivered event).
C29_OneNewTokenListener ==
    /\ serviceStartCalls > 0 => Len(listeners) = 1
    /\ deliveredMints # {} => listenersCalled = 1


(***************************************************************************)
(* Properties of stop() on the queue (SpecRestart).                        *)
(***************************************************************************)

\* A step of stop(): the call itself, or its continuation after the await.
StopStep ==
    \/ stopCalls' = stopCalls + 1
    \/ stopPending' = stopPending - 1

=============================================================================
